---------------------------- MODULE Spec2Model ----------------------------
(***************************************************************************)
(* Model of the synchronization engine of wt (`wt rebase`):                *)
(*   internal/cmd/rebase.go   runRebase, rebaseFeatureBranch,              *)
(*                            rebaseBaseBranch, rebaseContinue,            *)
(*                            rebaseAbort, rebaseAll, restoreStash         *)
(*   internal/git/*.go        the adapter over the git engine              *)
(*                                                                         *)
(* One repository with several working copies.  Every working copy has its *)
(* own head, working tree, rebase-in-progress marker and its own git dir   *)
(* (`git rev-parse --git-dir`), hence its own state file; the stash stack  *)
(* and the remote-tracking ref are shared by the whole repository.         *)
(* An invocation of the CLI is a short-lived process: it runs step by step *)
(* (one step per engine call) and may be killed between two steps.         *)
(***************************************************************************)
EXTENDS Integers, Sequences, FiniteSets, TLC

\* ------------------------------------------------------------------ bounds
NumWT == 2            \* working copies of the repository under Spec
BatchWT == 3          \* working copies of the repository under SpecBatch
MaxRemote == 1        \* commits pushed to a branch of the remote under Spec
BatchRemote == 2      \* commits on the remote base branch under SpecBatch
MaxInvocations == 3   \* invocations of the CLI in one behaviour of Spec
KillInvocations == 2  \* invocations of the CLI in one behaviour of SpecKill
MaxKills == 1         \* invocations killed in one behaviour of SpecKill
MaxLines == 3         \* lines of one diff output under SpecPredict

\* --------------------------------------------------------------- constants
BaseBranch == "staging"
OursOut == <<"y", "z">>
RemoteOut == <<"x", "y">>
FeatureNames == <<"feat1", "feat2", "feat3", "feat4", "feat5", "feat6">>

Clean == 0
Mixed == -1
NoFile == "absent"
NoRebase == [st |-> "none", onto |-> 0, orig |-> [base |-> 0, ahead |-> 0]]

VARIABLES
    \* the repository
    worktrees,     \* the working copies, in `git worktree list` order
    branch,        \* working copy -> name of the branch checked out in it
    willConflict,  \* working copy -> its commits conflict with the remote's
    refusing,      \* the engine refuses to start a rebase (a pre-rebase hook)
    tree,          \* working copy -> uncommitted changes (Clean, w, Mixed)
    head,          \* working copy -> [base, ahead]
    rb,            \* working copy -> the engine's rebase-in-progress marker
    stateFile,     \* working copy -> content of <git-dir>/wt-rebase-state
    stash,         \* the repository's stash stack, top first
    originRef,     \* branch -> the remote-tracking ref <remote>/<branch>
    upstream,      \* branch -> that branch on the remote
    \* the running invocation: its position, its handler, the working copy
    \* it runs in and its locals
    pc, cmd, cwd, didStash, behind, ending, idx, class,
    \* the record of the running / last invocation: exit status, operations
    \* performed, the repository as it was when it started
    result, log, pre, invocations, kills,
    killed,        \* the invocation that was killed last, and where
    \* the conflict predictor on its own: the output lines of its two diffs
    \* and what it returned
    baseOut, oursOut, conflicts

WT == 1..Len(worktrees)

repoVars == <<tree, head, rb, stateFile, stash, originRef, upstream>>
\* what no step of an invocation changes
unitVars == <<worktrees, branch, willConflict, refusing, baseOut, oursOut,
              conflicts>>
procVars == <<cmd, cwd, didStash, behind, ending, idx, class>>
histVars == <<pre, invocations, kills, killed>>
vars == <<worktrees, branch, willConflict, refusing, tree, head, rb, stateFile, stash,
          originRef, upstream, pc, cmd, cwd, didStash, behind, ending, idx,
          class, result, log, pre, invocations, kills, killed, baseOut,
          oursOut, conflicts>>

\* ------------------------------------------------------ the adapter (reads)
\* git rev-parse --abbrev-ref HEAD: the branch, or "HEAD" when detached
\* (the engine detaches the head while a rebase is in progress).
CurrentBranchIn(w) == IF rb[w].st = "none" THEN branch[w] ELSE "HEAD"

isBaseBranch(b) == b = BaseBranch \/ b = "main" \/ b = "master"

IsRebaseInProgressIn(w) == rb[w].st # "none"

\* a dirty check that only sees the paths of a stopped rebase
HasChangesInBlind(w) == rb[w].st # "none"

\* git status --porcelain is non-empty: uncommitted changes, or the
\* unmerged / staged paths of a stopped rebase.
HasChangesIn(w) == tree[w] # Clean \/ rb[w].st # "none"

StateFileExists(w) == stateFile[w] # NoFile

ReadStateFile(w) == IF stateFile[w] = NoFile THEN "" ELSE stateFile[w]

\* rev-list --count HEAD..<remote ref>
GetAheadBehindIn(w, ref) ==
    [Ahead |-> head[w].ahead,
     Behind |-> IF originRef[ref] > head[w].base
                THEN originRef[ref] - head[w].base ELSE 0]

\* Output lines of `git diff --name-only HEAD...<base ref>`: the paths the
\* remote side changed since the divergence, one empty line when none.
BaseOut(w) ==
    IF originRef[BaseBranch] <= head[w].base THEN <<"">> ELSE RemoteOut

\* Output lines of `git diff --name-only <base ref>...HEAD`: the paths the
\* branch's own commits changed.
OursOutIn(w) == IF head[w].ahead > 0 THEN OursOut ELSE <<"">>

\* the lines a diff output is made of here: path names, some with a blank
\* in front, and lines that are empty or all blanks
Lines == {"", " ", "x", "y", " y", "z"}

\* strings.TrimSpace
TrimSpace(line) ==
    CASE line = " "  -> ""
      [] line = " y" -> "y"
      [] OTHER       -> line

RECURSIVE toSet(_)
toSet(lines) ==
    IF lines = <<>> THEN {}
    ELSE IF TrimSpace(Head(lines)) # ""
         THEN {TrimSpace(Head(lines))} \cup toSet(Tail(lines))
         ELSE toSet(Tail(lines))

\* the loop of PotentialConflicts that compares the lines as git printed them
RECURSIVE ConflictLoopUntrimmed(_, _)
ConflictLoopUntrimmed(lines, baseFiles) ==
    IF lines = <<>> THEN <<>>
    ELSE IF Head(lines) # "" /\ Head(lines) \in baseFiles
         THEN <<Head(lines)>> \o ConflictLoopUntrimmed(Tail(lines), baseFiles)
         ELSE ConflictLoopUntrimmed(Tail(lines), baseFiles)

RECURSIVE ConflictLoop(_, _)
ConflictLoop(lines, baseFiles) ==
    IF lines = <<>> THEN <<>>
    ELSE IF TrimSpace(Head(lines)) # "" /\ TrimSpace(Head(lines)) \in baseFiles
         THEN <<TrimSpace(Head(lines))>> \o ConflictLoop(Tail(lines), baseFiles)
         ELSE ConflictLoop(Tail(lines), baseFiles)

PotentialConflicts(w) == ConflictLoop(OursOutIn(w), toSet(BaseOut(w)))

\* ---------------------------------------------------- the adapter (effects)
\* git stash push -u: shelves the working copy's changes on the repository's
\* stash stack and leaves the tree clean.
StashPush(w) ==
    /\ stash' = <<[wt |-> w, content |-> tree[w], base |-> head[w]]>> \o stash
    /\ tree' = [tree EXCEPT ![w] = Clean]

\* git stash pop fails without an entry; applied to the clean tree and commit
\* the entry was made from it always succeeds, anywhere else it may conflict.
StashPopOutcomes(w) ==
    IF stash = <<>> THEN {"error"}
    ELSE IF /\ stash[1].wt = w /\ stash[1].base = head[w]
            /\ tree[w] = Clean /\ rb[w].st = "none"
         THEN {"ok"}
         ELSE {"ok", "conflict"}

\* git stash pop: applies the TOP entry of the stack to working copy w and
\* drops it; on a conflict the entry stays and the tree is left with the
\* conflicting application.
StashPop(w, outcome) ==
    CASE outcome = "ok" ->
            /\ tree' = [tree EXCEPT ![w] =
                           IF tree[w] = Clean THEN stash[1].content ELSE Mixed]
            /\ stash' = Tail(stash)
      [] outcome = "conflict" ->
            /\ tree' = [tree EXCEPT ![w] = Mixed]
            /\ stash' = stash
      [] OTHER ->
            /\ tree' = tree
            /\ stash' = stash

\* git rebase <onto> in working copy w: refused by a hook, while another
\* rebase is in progress or when the tree is dirty; nothing to do when not behind; stops with
\* the rebase in progress on a conflict; otherwise moves the head onto <onto>.
RebaseOutcome(w) ==
    IF refusing \/ rb[w].st # "none" \/ tree[w] # Clean THEN "error"
    ELSE IF originRef[BaseBranch] <= head[w].base THEN "ok"
    ELSE IF willConflict[w] /\ PotentialConflicts(w) # <<>> THEN "conflict"
    ELSE "ok"

RebaseIn(w) ==
    CASE RebaseOutcome(w) = "conflict" ->
            /\ rb' = [rb EXCEPT ![w] =
                         [st |-> "conflict", onto |-> originRef[BaseBranch],
                          orig |-> head[w]]]
            /\ head' = [head EXCEPT ![w] =
                           [base |-> originRef[BaseBranch], ahead |-> 0]]
      [] RebaseOutcome(w) = "ok" ->
            /\ rb' = rb
            /\ head' = [head EXCEPT ![w] =
                           [base |-> IF originRef[BaseBranch] > head[w].base
                                     THEN originRef[BaseBranch]
                                     ELSE head[w].base,
                            ahead |-> head[w].ahead]]
      [] OTHER ->
            /\ rb' = rb
            /\ head' = head

\* git rebase --continue: succeeds once the conflicts are resolved.
RebaseContinueOutcome(w) == IF rb[w].st = "resolved" THEN "ok" ELSE "error"

RebaseContinue(w) ==
    IF rb[w].st = "resolved"
    THEN /\ head' = [head EXCEPT ![w] =
                        [base |-> rb[w].onto, ahead |-> rb[w].orig.ahead]]
         /\ rb' = [rb EXCEPT ![w] = NoRebase]
    ELSE /\ head' = head
         /\ rb' = rb

\* git rebase --abort: back to the head the rebase started from.
RebaseAbortIn(w) ==
    IF rb[w].st # "none"
    THEN /\ head' = [head EXCEPT ![w] = rb[w].orig]
         /\ rb' = [rb EXCEPT ![w] = NoRebase]
    ELSE /\ head' = head
         /\ rb' = rb

\* git fetch <remote> <ref>
Fetch(ref) == originRef' = [originRef EXCEPT ![ref] = upstream[ref]]

\* git merge --ff-only <remote>/<ref>: only when the head has no commit of
\* its own
MergeFFOutcome(w) == IF head[w].ahead = 0 THEN "ok" ELSE "error"

MergeFF(w, ref) ==
    IF head[w].ahead = 0
    THEN head' = [head EXCEPT ![w] =
                     [base |-> IF originRef[ref] > head[w].base
                               THEN originRef[ref] ELSE head[w].base,
                      ahead |-> 0]]
    ELSE head' = head

\* SaveStateFile that writes to the git dir all working copies share
SaveStateFileShared(w, content) == stateFile' = [u \in WT |-> content]

SaveStateFile(w, content) == stateFile' = [stateFile EXCEPT ![w] = content]

RemoveStateFile(w) == stateFile' = [stateFile EXCEPT ![w] = NoFile]

\* ------------------------------------------------------------ bookkeeping
\* log: the engine and file operations of the running invocation, in order,
\* each with the working copy it acted in and how it ended
Min(S) == CHOOSE x \in S : \A y \in S : x <= y

Op(name, w, res) == [op |-> name, wt |-> w, res |-> res]

Logged(name, w, res) == log' = Append(log, Op(name, w, res))

\* the process returns: err = "" is exit status zero
Return(err, msg) ==
    /\ pc' = "idle"
    /\ result' = [status |-> IF err = "" THEN "ok" ELSE "error",
                  err |-> err, msg |-> msg]

NoResult == [status |-> "none", err |-> "", msg |-> ""]

NoKill == [cmd |-> "none", wt |-> 0, at |-> "", tree |-> Clean,
           stash |-> <<>>]

NoSnapshot == [tree |-> <<>>, head |-> <<>>, rb |-> <<>>, stateFile |-> <<>>,
               stash |-> <<>>, originRef |-> <<>>]

Snapshot == [tree |-> tree, head |-> head, rb |-> rb, stateFile |-> stateFile,
             stash |-> stash, originRef |-> originRef]

\* restoreStash that forgets the pop
restoreStashNever(w, flag) ==
    /\ UNCHANGED <<tree, stash>>
    /\ UNCHANGED log

\* restoreStash(didStash): pops when asked to; a failing pop is only warned
\* about.
restoreStash(w, flag) ==
    IF flag
    THEN \E outcome \in StashPopOutcomes(w) :
            /\ StashPop(w, outcome)
            /\ Logged("pop", w, outcome)
    ELSE /\ UNCHANGED <<tree, stash>>
         /\ UNCHANGED log

\* ui.Confirm: an empty line (or a read error) takes the default
Answers == {"", "y", "n"}

Confirm(input, defaultYes) ==
    IF input = "" THEN defaultYes ELSE input = "y" \/ input = "yes"

\* ---------------------------------------------------------------- runRebase
\* runRebase that takes the base-branch path for the configured base branch
\* only
runRebaseConfiguredOnly(w, flag) ==
    /\ pc = "idle"
    /\ invocations' = invocations + 1
    /\ UNCHANGED <<kills, killed>>
    /\ pre' = Snapshot
    /\ cmd' = IF flag = "all" THEN "all"
              ELSE IF flag = "continue" THEN "continue"
              ELSE IF flag = "abort" THEN "abort"
              ELSE IF CurrentBranchIn(w) = BaseBranch THEN "base"
              ELSE "feature"
    /\ cwd' = w
    /\ log' = <<>>
    /\ result' = [status |-> "running", err |-> "", msg |-> ""]
    /\ didStash' = FALSE
    /\ behind' = 0
    /\ ending' = ""
    /\ idx' = 1
    /\ class' = [u \in WT |-> "none"]
    /\ pc' = IF flag = "all" THEN "all_fetch"
             ELSE IF flag = "continue" THEN "c_begin"
             ELSE IF flag = "abort" THEN "a_begin"
             ELSE IF CurrentBranchIn(w) = BaseBranch THEN "b_begin"
             ELSE "f_begin"
    /\ UNCHANGED repoVars
    /\ UNCHANGED unitVars

runRebase(w, flag) ==
    /\ pc = "idle"
    /\ invocations' = invocations + 1
    /\ UNCHANGED <<kills, killed>>
    /\ pre' = Snapshot
    /\ cmd' = IF flag = "all" THEN "all"
              ELSE IF flag = "continue" THEN "continue"
              ELSE IF flag = "abort" THEN "abort"
              ELSE IF isBaseBranch(CurrentBranchIn(w)) THEN "base"
              ELSE "feature"
    /\ cwd' = w
    /\ log' = <<>>
    /\ result' = [status |-> "running", err |-> "", msg |-> ""]
    /\ didStash' = FALSE
    /\ behind' = 0
    /\ ending' = ""
    /\ idx' = 1
    /\ class' = [u \in WT |-> "none"]
    /\ pc' = IF flag = "all" THEN "all_fetch"
             ELSE IF flag = "continue" THEN "c_begin"
             ELSE IF flag = "abort" THEN "a_begin"
             ELSE IF isBaseBranch(CurrentBranchIn(w)) THEN "b_begin"
             ELSE "f_begin"
    /\ UNCHANGED repoVars
    /\ UNCHANGED unitVars

\* runRebase outside a repository: newContext fails on its first git call
runRebaseOutside ==
    /\ pc = "idle"
    /\ invocations' = invocations + 1
    /\ UNCHANGED <<kills, killed>>
    /\ pre' = Snapshot
    /\ cmd' = "outside"
    /\ cwd' = 1
    /\ log' = <<>>
    /\ Return("not a git repository", "")
    /\ didStash' = FALSE
    /\ behind' = 0
    /\ ending' = ""
    /\ idx' = 1
    /\ class' = [u \in WT |-> "none"]
    /\ UNCHANGED repoVars
    /\ UNCHANGED unitVars

\* rebaseFeatureBranch that does not look for a rebase in progress
FeatureBeginIgnoresRebase ==
    /\ pc = "f_begin"
    /\ UNCHANGED <<head, rb, stateFile, originRef, upstream>>
    /\ UNCHANGED <<unitVars, histVars, cmd, cwd, behind, ending, idx, class>>
    /\ IF HasChangesIn(cwd)
       THEN \E ok \in BOOLEAN :
               /\ Logged("push", cwd, IF ok THEN "ok" ELSE "error")
               /\ IF ok
                  THEN /\ StashPush(cwd)
                       /\ didStash' = TRUE
                       /\ pc' = "f_save"
                       /\ UNCHANGED result
                  ELSE /\ Return("failed to stash changes", "")
                       /\ UNCHANGED <<tree, stash, didStash>>
       ELSE /\ pc' = "f_save"
            /\ UNCHANGED <<tree, stash, didStash, log, result>>

\* ------------------------------------------------------ rebaseFeatureBranch
FeatureBegin ==
    /\ pc = "f_begin"
    /\ UNCHANGED <<head, rb, stateFile, originRef, upstream>>
    /\ UNCHANGED <<unitVars, histVars, cmd, cwd, behind, ending, idx, class>>
    /\ IF IsRebaseInProgressIn(cwd)
       THEN /\ Return("rebase already in progress", "")
            /\ UNCHANGED <<tree, stash, didStash, log>>
       ELSE IF HasChangesIn(cwd)
       THEN \E ok \in BOOLEAN :
               /\ Logged("push", cwd, IF ok THEN "ok" ELSE "error")
               /\ IF ok
                  THEN /\ StashPush(cwd)
                       /\ didStash' = TRUE
                       /\ pc' = "f_save"
                       /\ UNCHANGED result
                  ELSE /\ Return("failed to stash changes", "")
                       /\ UNCHANGED <<tree, stash, didStash>>
       ELSE /\ pc' = "f_save"
            /\ UNCHANGED <<tree, stash, didStash, log, result>>

\* rebaseFeatureBranch that goes on to the fetch without saving the state
FeatureSaveForgets ==
    /\ pc = "f_save"
    /\ pc' = "f_fetch"
    /\ UNCHANGED <<repoVars, unitVars, procVars, histVars, result, log>>

FeatureSave ==
    /\ pc = "f_save"
    /\ SaveStateFile(cwd, IF didStash THEN "stashed" ELSE "no")
    /\ Logged("save", cwd, "ok")
    /\ pc' = "f_fetch"
    /\ UNCHANGED <<tree, head, rb, stash, originRef, upstream>>
    /\ UNCHANGED <<unitVars, procVars, histVars, result>>

FeatureFetch ==
    /\ pc = "f_fetch"
    /\ \E ok \in BOOLEAN :
          IF ok
          THEN /\ Logged("fetch", cwd, "ok")
               /\ Fetch(BaseBranch)
               /\ pc' = "f_ab"
               /\ UNCHANGED ending
          ELSE /\ Logged("fetch", cwd, "error")
               /\ originRef' = originRef
               /\ pc' = "f_fetchfail_restore"
               /\ ending' = "fetch_failed"
    /\ UNCHANGED <<tree, head, rb, stateFile, stash, upstream>>
    /\ UNCHANGED <<unitVars, histVars, cmd, cwd, didStash, behind, idx, class, result>>

\* the clean-up shared by the exits of rebaseFeatureBranch:
\* restoreStash(didStash), then git.RemoveStateFile, then the return
FeatureRestore ==
    /\ pc \in {"f_fetchfail_restore", "f_uptodate_restore",
               "f_cancel_restore", "f_synced_restore"}
    /\ restoreStash(cwd, didStash)
    /\ pc' = "f_remove"
    /\ UNCHANGED <<head, rb, stateFile, originRef, upstream>>
    /\ UNCHANGED <<unitVars, procVars, histVars, result>>

FeatureRemove ==
    /\ pc = "f_remove"
    /\ RemoveStateFile(cwd)
    /\ Logged("remove", cwd, "ok")
    /\ CASE ending = "fetch_failed" -> Return("failed to fetch", "")
         [] ending = "up_to_date"   -> Return("", "Already up to date")
         [] ending = "cancelled"    -> Return("", "Cancelled")
         [] OTHER                   -> Return("", "Synced")
    /\ UNCHANGED <<tree, head, rb, stash, originRef, upstream>>
    /\ UNCHANGED <<unitVars, procVars, histVars>>

\* rebaseFeatureBranch without the up-to-date short-circuit
FeatureAheadBehindNoShortCircuit ==
    /\ pc = "f_ab"
    /\ Logged("ab", cwd, "ok")
    /\ behind' = GetAheadBehindIn(cwd, BaseBranch).Behind
    /\ pc' = "f_preview"
    /\ ending' = IF GetAheadBehindIn(cwd, BaseBranch).Behind = 0
                 THEN "up_to_date" ELSE ending
    /\ UNCHANGED repoVars
    /\ UNCHANGED <<unitVars, histVars, cmd, cwd, didStash, idx, class, result>>

FeatureAheadBehind ==
    /\ pc = "f_ab"
    /\ Logged("ab", cwd, "ok")
    /\ behind' = GetAheadBehindIn(cwd, BaseBranch).Behind
    /\ IF GetAheadBehindIn(cwd, BaseBranch).Behind = 0
       THEN /\ pc' = "f_uptodate_restore"
            /\ ending' = "up_to_date"
       ELSE /\ pc' = "f_preview"
            /\ UNCHANGED ending
    /\ UNCHANGED repoVars
    /\ UNCHANGED <<unitVars, histVars, cmd, cwd, didStash, idx, class, result>>

\* rebaseFeatureBranch whose prompt takes Enter as a no
FeaturePreviewDefaultsNo ==
    /\ pc = "f_preview"
    /\ IF PotentialConflicts(cwd) # <<>>
       THEN \E input \in Answers :
               /\ log' = log \o <<Op("preview", cwd, "ok"),
                                Op("confirm", cwd, input)>>
               /\ IF Confirm(input, FALSE)
                  THEN /\ pc' = "f_rebase"
                       /\ UNCHANGED ending
                  ELSE /\ pc' = "f_cancel_restore"
                       /\ ending' = "cancelled"
       ELSE /\ Logged("preview", cwd, "ok")
            /\ pc' = "f_rebase"
            /\ UNCHANGED ending
    /\ UNCHANGED repoVars
    /\ UNCHANGED <<unitVars, histVars, cmd, cwd, didStash, behind, idx, class, result>>

\* git.PotentialConflicts may fail (one of its diffs does): the preview is
\* then skipped, as it is with no overlap
FeaturePreview ==
    /\ pc = "f_preview"
    /\ \E failed \in BOOLEAN :
          IF ~failed /\ PotentialConflicts(cwd) # <<>>
          THEN \E input \in Answers :
                  /\ log' = log \o <<Op("preview", cwd, "ok"),
                                   Op("confirm", cwd, input)>>
                  /\ IF Confirm(input, TRUE)
                     THEN /\ pc' = "f_rebase"
                          /\ UNCHANGED ending
                     ELSE /\ pc' = "f_cancel_restore"
                          /\ ending' = "cancelled"
          ELSE /\ Logged("preview", cwd, IF failed THEN "error" ELSE "ok")
               /\ pc' = "f_rebase"
               /\ UNCHANGED ending
    /\ UNCHANGED repoVars
    /\ UNCHANGED <<unitVars, histVars, cmd, cwd, didStash, behind, idx, class, result>>

\* rebaseFeatureBranch that reports the conflict as an error and rolls the
\* state record back
FeatureRebaseFailsOnConflict ==
    /\ pc = "f_rebase"
    /\ Logged("rebase", cwd, RebaseOutcome(cwd))
    /\ RebaseIn(cwd)
    /\ IF RebaseOutcome(cwd) # "ok"
       THEN /\ Return("rebase failed", "")
            /\ RemoveStateFile(cwd)
            /\ UNCHANGED ending
       ELSE /\ pc' = "f_synced_restore"
            /\ ending' = "synced"
            /\ UNCHANGED <<result, stateFile>>
    /\ UNCHANGED <<tree, stash, originRef, upstream>>
    /\ UNCHANGED <<unitVars, histVars, cmd, cwd, didStash, behind, idx, class>>

FeatureRebase ==
    /\ pc = "f_rebase"
    /\ Logged("rebase", cwd, RebaseOutcome(cwd))
    /\ RebaseIn(cwd)
    /\ IF RebaseOutcome(cwd) # "ok"
       THEN /\ Return("", "Rebase paused due to conflicts")
            /\ UNCHANGED ending
       ELSE /\ pc' = "f_synced_restore"
            /\ ending' = "synced"
            /\ UNCHANGED result
    /\ UNCHANGED <<tree, stateFile, stash, originRef, upstream>>
    /\ UNCHANGED <<unitVars, histVars, cmd, cwd, didStash, behind, idx, class>>

\* rebaseContinue that goes on to the clean-up although the engine still
\* reports conflicts
ContinueBeginFallsThrough ==
    /\ pc = "c_begin"
    /\ UNCHANGED <<tree, stateFile, stash, originRef, upstream>>
    /\ UNCHANGED <<unitVars, procVars, histVars>>
    /\ IF ~StateFileExists(cwd)
       THEN /\ Return("no sync in progress", "")
            /\ UNCHANGED <<head, rb, log>>
       ELSE IF IsRebaseInProgressIn(cwd)
       THEN /\ Logged("continue", cwd, RebaseContinueOutcome(cwd))
            /\ RebaseContinue(cwd)
            /\ pc' = "c_restore"
            /\ UNCHANGED result
       ELSE /\ pc' = "c_restore"
            /\ UNCHANGED <<head, rb, log, result>>

\* rebaseContinue that infers a sync from the engine's rebase in progress
ContinueBeginInfersState ==
    /\ pc = "c_begin"
    /\ UNCHANGED <<tree, stateFile, stash, originRef, upstream>>
    /\ UNCHANGED <<unitVars, procVars, histVars>>
    /\ IF ~StateFileExists(cwd) /\ ~IsRebaseInProgressIn(cwd)
       THEN /\ Return("no sync in progress", "")
            /\ UNCHANGED <<head, rb, log>>
       ELSE IF IsRebaseInProgressIn(cwd)
       THEN /\ Logged("continue", cwd, RebaseContinueOutcome(cwd))
            /\ RebaseContinue(cwd)
            /\ IF RebaseContinueOutcome(cwd) # "ok"
               THEN Return("", "Still have conflicts")
               ELSE /\ pc' = "c_restore"
                    /\ UNCHANGED result
       ELSE /\ pc' = "c_restore"
            /\ UNCHANGED <<head, rb, log, result>>

\* ------------------------------------------------------------ rebaseContinue
ContinueBegin ==
    /\ pc = "c_begin"
    /\ UNCHANGED <<tree, stateFile, stash, originRef, upstream>>
    /\ UNCHANGED <<unitVars, procVars, histVars>>
    /\ IF ~StateFileExists(cwd)
       THEN /\ Return("no sync in progress", "")
            /\ UNCHANGED <<head, rb, log>>
       ELSE IF IsRebaseInProgressIn(cwd)
       THEN /\ Logged("continue", cwd, RebaseContinueOutcome(cwd))
            /\ RebaseContinue(cwd)
            /\ IF RebaseContinueOutcome(cwd) # "ok"
               THEN Return("", "Still have conflicts")
               ELSE /\ pc' = "c_restore"
                    /\ UNCHANGED result
       ELSE /\ pc' = "c_restore"
            /\ UNCHANGED <<head, rb, log, result>>

ContinueRestore ==
    /\ pc = "c_restore"
    /\ restoreStash(cwd, ReadStateFile(cwd) = "stashed")
    /\ pc' = "c_remove"
    /\ UNCHANGED <<head, rb, stateFile, originRef, upstream>>
    /\ UNCHANGED <<unitVars, procVars, histVars, result>>

ContinueRemove ==
    /\ pc = "c_remove"
    /\ RemoveStateFile(cwd)
    /\ Logged("remove", cwd, "ok")
    /\ Return("", "Synced with base branch")
    /\ UNCHANGED <<tree, head, rb, stash, originRef, upstream>>
    /\ UNCHANGED <<unitVars, procVars, histVars>>

\* rebaseAbort that leaves the engine's rebase alone
AbortBeginKeepsRebase ==
    /\ pc = "a_begin"
    /\ UNCHANGED <<head, rb, log>>
    /\ pc' = "a_state"
    /\ UNCHANGED <<tree, stateFile, stash, originRef, upstream>>
    /\ UNCHANGED <<unitVars, procVars, histVars, result>>

\* --------------------------------------------------------------- rebaseAbort
AbortBegin ==
    /\ pc = "a_begin"
    /\ IF IsRebaseInProgressIn(cwd)
       THEN /\ RebaseAbortIn(cwd)
            /\ Logged("abort", cwd, "ok")
       ELSE UNCHANGED <<head, rb, log>>
    /\ pc' = "a_state"
    /\ UNCHANGED <<tree, stateFile, stash, originRef, upstream>>
    /\ UNCHANGED <<unitVars, procVars, histVars, result>>

\* rebaseAbort that requires a state record, as rebaseContinue does
AbortStateRequiresRecord ==
    /\ pc = "a_state"
    /\ IF StateFileExists(cwd)
       THEN /\ restoreStash(cwd, ReadStateFile(cwd) = "stashed")
            /\ pc' = "a_remove"
            /\ UNCHANGED result
       ELSE /\ Return("no sync in progress", "")
            /\ UNCHANGED <<tree, stash, log>>
    /\ UNCHANGED <<head, rb, stateFile, originRef, upstream>>
    /\ UNCHANGED <<unitVars, procVars, histVars>>

AbortState ==
    /\ pc = "a_state"
    /\ IF StateFileExists(cwd)
       THEN /\ restoreStash(cwd, ReadStateFile(cwd) = "stashed")
            /\ pc' = "a_remove"
            /\ UNCHANGED result
       ELSE /\ Return("", "Rebase aborted")
            /\ UNCHANGED <<tree, stash, log>>
    /\ UNCHANGED <<head, rb, stateFile, originRef, upstream>>
    /\ UNCHANGED <<unitVars, procVars, histVars>>

AbortRemove ==
    /\ pc = "a_remove"
    /\ RemoveStateFile(cwd)
    /\ Logged("remove", cwd, "ok")
    /\ Return("", "Rebase aborted")
    /\ UNCHANGED <<tree, head, rb, stash, originRef, upstream>>
    /\ UNCHANGED <<unitVars, procVars, histVars>>

\* rebaseBaseBranch that stashes a dirty tree without asking, as the
\* feature path does
BaseBeginStashesUnasked ==
    /\ pc = "b_begin"
    /\ UNCHANGED <<head, rb, stateFile, originRef, upstream>>
    /\ UNCHANGED <<unitVars, histVars, cmd, cwd, behind, ending, idx, class>>
    /\ IF HasChangesIn(cwd)
       THEN \E ok \in BOOLEAN :
               /\ Logged("push", cwd, IF ok THEN "ok" ELSE "error")
               /\ IF ok
                  THEN /\ StashPush(cwd)
                       /\ didStash' = TRUE
                       /\ pc' = "b_fetch"
                       /\ UNCHANGED result
                  ELSE /\ Return("failed to stash", "")
                       /\ UNCHANGED <<tree, stash, didStash>>
       ELSE /\ pc' = "b_fetch"
            /\ UNCHANGED <<tree, stash, didStash, log, result>>

\* --------------------------------------------------------- rebaseBaseBranch
BaseBegin ==
    /\ pc = "b_begin"
    /\ UNCHANGED <<head, rb, stateFile, originRef, upstream>>
    /\ UNCHANGED <<unitVars, histVars, cmd, cwd, behind, ending, idx, class>>
    /\ IF HasChangesIn(cwd)
       THEN \E input \in Answers, ok \in BOOLEAN :
               IF ~Confirm(input, TRUE)
               THEN /\ Logged("confirm", cwd, input)
                    /\ Return("", "Cancelled")
                    /\ UNCHANGED <<tree, stash, didStash>>
               ELSE /\ log' = log \o <<Op("confirm", cwd, input),
                                        Op("push", cwd,
                                           IF ok THEN "ok" ELSE "error")>>
                    /\ IF ok
                       THEN /\ StashPush(cwd)
                            /\ didStash' = TRUE
                            /\ pc' = "b_fetch"
                            /\ UNCHANGED result
                       ELSE /\ Return("failed to stash", "")
                            /\ UNCHANGED <<tree, stash, didStash>>
       ELSE /\ pc' = "b_fetch"
            /\ UNCHANGED <<tree, stash, didStash, log, result>>

BaseFetch ==
    /\ pc = "b_fetch"
    /\ \E ok \in BOOLEAN :
          IF ok
          THEN /\ Logged("fetch", cwd, "ok")
               /\ Fetch(branch[cwd])
               /\ pc' = "b_ab"
               /\ UNCHANGED ending
          ELSE /\ Logged("fetch", cwd, "error")
               /\ originRef' = originRef
               /\ pc' = "b_fetchfail_restore"
               /\ ending' = "fetch_failed"
    /\ UNCHANGED <<tree, head, rb, stateFile, stash, upstream>>
    /\ UNCHANGED <<unitVars, histVars, cmd, cwd, didStash, behind, idx, class, result>>

\* rebaseBaseBranch that counts against the configured base ref, as the
\* feature path does, instead of the remote ref of the branch itself
BaseAheadBehindAgainstBase ==
    /\ pc = "b_ab"
    /\ Logged("ab", cwd, "ok")
    /\ behind' = GetAheadBehindIn(cwd, BaseBranch).Behind
    /\ IF GetAheadBehindIn(cwd, BaseBranch).Behind = 0
       THEN /\ pc' = "b_uptodate_restore"
            /\ ending' = "up_to_date"
       ELSE /\ pc' = "b_merge"
            /\ UNCHANGED ending
    /\ UNCHANGED repoVars
    /\ UNCHANGED <<unitVars, histVars, cmd, cwd, didStash, idx, class, result>>

BaseAheadBehind ==
    /\ pc = "b_ab"
    /\ Logged("ab", cwd, "ok")
    /\ behind' = GetAheadBehindIn(cwd, branch[cwd]).Behind
    /\ IF GetAheadBehindIn(cwd, branch[cwd]).Behind = 0
       THEN /\ pc' = "b_uptodate_restore"
            /\ ending' = "up_to_date"
       ELSE /\ pc' = "b_merge"
            /\ UNCHANGED ending
    /\ UNCHANGED repoVars
    /\ UNCHANGED <<unitVars, histVars, cmd, cwd, didStash, idx, class, result>>

\* rebaseBaseBranch that rebases the branch onto its remote ref when the
\* fast-forward is refused
BaseMergeFallsBackToRebase ==
    /\ pc = "b_merge"
    /\ IF MergeFFOutcome(cwd) # "ok"
       THEN /\ log' = log \o <<Op("merge", cwd, "error"),
                                Op("rebase", cwd, "ok")>>
            /\ head' = [head EXCEPT ![cwd].base = originRef[branch[cwd]]]
       ELSE /\ Logged("merge", cwd, "ok")
            /\ MergeFF(cwd, branch[cwd])
    /\ pc' = "b_synced_restore"
    /\ ending' = "synced"
    /\ UNCHANGED <<tree, rb, stateFile, stash, originRef, upstream>>
    /\ UNCHANGED <<unitVars, histVars, cmd, cwd, didStash, behind, idx, class, result>>

BaseMerge ==
    /\ pc = "b_merge"
    /\ Logged("merge", cwd, MergeFFOutcome(cwd))
    /\ MergeFF(cwd, branch[cwd])
    /\ IF MergeFFOutcome(cwd) # "ok"
       THEN /\ pc' = "b_fffail_restore"
            /\ ending' = "cannot_ff"
       ELSE /\ pc' = "b_synced_restore"
            /\ ending' = "synced"
    /\ UNCHANGED <<tree, rb, stateFile, stash, originRef, upstream>>
    /\ UNCHANGED <<unitVars, histVars, cmd, cwd, didStash, behind, idx, class, result>>

\* restoreStash(didStash) and the return that follows it on every exit of
\* rebaseBaseBranch
BaseRestore ==
    /\ pc \in {"b_fetchfail_restore", "b_uptodate_restore",
               "b_fffail_restore", "b_synced_restore"}
    /\ restoreStash(cwd, didStash)
    /\ CASE ending = "fetch_failed" -> Return("failed to fetch", "")
         [] ending = "up_to_date"   -> Return("", "Already up to date")
         [] ending = "cannot_ff"    -> Return("cannot fast-forward", "")
         [] OTHER                   -> Return("", "synced!")
    /\ UNCHANGED <<head, rb, stateFile, originRef, upstream>>
    /\ UNCHANGED <<unitVars, procVars, histVars>>

\* rebaseAll that fetches another branch of the remote than the configured one
AllFetchOtherBranch ==
    /\ pc = "all_fetch"
    /\ \E ok \in BOOLEAN :
          IF ok THEN /\ Logged("fetch", cwd, "ok")
                     /\ Fetch("main")
                ELSE /\ Logged("fetch", cwd, "error")
                     /\ originRef' = originRef
    /\ pc' = "all_unit"
    /\ UNCHANGED <<tree, head, rb, stateFile, stash, upstream>>
    /\ UNCHANGED <<unitVars, procVars, histVars, result>>

\* ----------------------------------------------------------------- rebaseAll
AllFetch ==
    /\ pc = "all_fetch"
    /\ \E ok \in BOOLEAN :
          IF ok THEN /\ Logged("fetch", cwd, "ok")
                     /\ Fetch(BaseBranch)
                ELSE /\ Logged("fetch", cwd, "error")
                     /\ originRef' = originRef
    /\ pc' = "all_unit"
    /\ UNCHANGED <<tree, head, rb, stateFile, stash, upstream>>
    /\ UNCHANGED <<unitVars, procVars, histVars, result>>

\* one iteration of the loop over the working copies, up to the rebase
AllUnit ==
    /\ pc = "all_unit"
    /\ idx <= Len(worktrees)
    /\ UNCHANGED <<tree, stateFile, stash, originRef, upstream>>
    /\ UNCHANGED <<unitVars, histVars, cmd, cwd, didStash, behind, ending, result>>
    /\ IF isBaseBranch(CurrentBranchIn(idx))
       THEN /\ idx' = idx + 1
            /\ UNCHANGED <<head, rb, class, log, pc>>
       ELSE IF HasChangesIn(idx)
       THEN /\ class' = [class EXCEPT ![idx] = "skipped_dirty"]
            /\ idx' = idx + 1
            /\ UNCHANGED <<head, rb, log, pc>>
       ELSE IF GetAheadBehindIn(idx, BaseBranch).Behind = 0
       THEN /\ class' = [class EXCEPT ![idx] = "up_to_date"]
            /\ idx' = idx + 1
            /\ UNCHANGED <<head, rb, log, pc>>
       ELSE /\ Logged("rebase", idx, RebaseOutcome(idx))
            /\ RebaseIn(idx)
            /\ IF RebaseOutcome(idx) # "ok"
               THEN /\ pc' = "all_abort"
                    /\ UNCHANGED <<class, idx>>
               ELSE /\ class' = [class EXCEPT ![idx] = "rebased"]
                    /\ idx' = idx + 1
                    /\ UNCHANGED pc

\* rebaseAll that gives up on the first conflict
AllAbortHalts ==
    /\ pc = "all_abort"
    /\ Logged("abort", idx,
              IF IsRebaseInProgressIn(idx) THEN "ok" ELSE "error")
    /\ RebaseAbortIn(idx)
    /\ class' = [class EXCEPT ![idx] = "failed_conflict"]
    /\ idx' = Len(worktrees) + 1
    /\ pc' = "all_unit"
    /\ UNCHANGED <<tree, stateFile, stash, originRef, upstream>>
    /\ UNCHANGED <<unitVars, histVars, cmd, cwd, didStash, behind, ending, result>>

\* rebaseAll that leaves the conflicting unit paused
AllAbortLeavesPaused ==
    /\ pc = "all_abort"
    /\ UNCHANGED <<head, rb, log>>
    /\ class' = [class EXCEPT ![idx] = "failed_conflict"]
    /\ idx' = idx + 1
    /\ pc' = "all_unit"
    /\ UNCHANGED <<tree, stateFile, stash, originRef, upstream>>
    /\ UNCHANGED <<unitVars, histVars, cmd, cwd, didStash, behind, ending, result>>

\* rebaseAll that pauses the conflicting unit as a single sync does: it
\* writes the state record and leaves the rebase in progress
AllAbortPauses ==
    /\ pc = "all_abort"
    /\ SaveStateFile(idx, "no")
    /\ Logged("save", idx, "ok")
    /\ UNCHANGED <<head, rb>>
    /\ class' = [class EXCEPT ![idx] = "failed_conflict"]
    /\ idx' = idx + 1
    /\ pc' = "all_unit"
    /\ UNCHANGED <<tree, stash, originRef, upstream>>
    /\ UNCHANGED <<unitVars, histVars, cmd, cwd, didStash, behind, ending, result>>

\* the error branch of the iteration: git.RebaseAbortIn, failed++
AllAbort ==
    /\ pc = "all_abort"
    /\ Logged("abort", idx,
              IF IsRebaseInProgressIn(idx) THEN "ok" ELSE "error")
    /\ RebaseAbortIn(idx)
    /\ class' = [class EXCEPT ![idx] = "failed_conflict"]
    /\ idx' = idx + 1
    /\ pc' = "all_unit"
    /\ UNCHANGED <<tree, stateFile, stash, originRef, upstream>>
    /\ UNCHANGED <<unitVars, histVars, cmd, cwd, didStash, behind, ending, result>>

AllSummary ==
    /\ pc = "all_unit"
    /\ idx > Len(worktrees)
    /\ Return("", "Summary")
    /\ UNCHANGED <<repoVars, unitVars, procVars, histVars, log>>

\* ------------------------------------------------------------ the operator
\* The process of the last invocation is gone when the operator, or the
\* remote, acts: its locals and its record are dropped.
Forgotten ==
    /\ cmd' = "none"
    /\ cwd' = 1
    /\ didStash' = FALSE
    /\ behind' = 0
    /\ ending' = ""
    /\ idx' = 1
    /\ class' = [w \in WT |-> "none"]
    /\ result' = NoResult
    /\ log' = <<>>
    /\ pre' = NoSnapshot
    /\ UNCHANGED <<invocations, kills, killed>>

\* the operator fixes the conflicts of a stopped rebase and stages the fixes
Resolve(w) ==
    /\ pc = "idle"
    /\ rb[w].st = "conflict"
    /\ rb' = [rb EXCEPT ![w].st = "resolved"]
    /\ Forgotten
    /\ UNCHANGED <<tree, head, stateFile, stash, originRef, upstream>>
    /\ UNCHANGED <<unitVars, pc>>

\* somebody pushes to the remote
RemoteAdvance(b) ==
    /\ pc = "idle"
    /\ upstream[b] < MaxRemote
    /\ b = BaseBranch \/ \E w \in WT : branch[w] = b
    /\ upstream' = [upstream EXCEPT ![b] = upstream[b] + 1]
    /\ Forgotten
    /\ UNCHANGED <<tree, head, rb, stateFile, stash, originRef>>
    /\ UNCHANGED <<unitVars, pc>>

\* the process is killed between two of its steps
Kill ==
    /\ pc # "idle"
    /\ kills' = kills + 1
    /\ killed' = [cmd |-> cmd, wt |-> cwd, at |-> pc,
                  tree |-> pre.tree[cwd], stash |-> pre.stash]
    /\ pc' = "idle"
    /\ result' = [status |-> "killed", err |-> "", msg |-> ""]
    /\ UNCHANGED <<repoVars, unitVars, procVars, pre, invocations, log>>

\* ---------------------------------------------------------------------- Spec
RemoteBranches == {BaseBranch, "main"}
Flags == {"none", "continue", "abort", "all"}

\* rebaseAll does not look at the working copy it is invoked in: --all is
\* run from the first one.

\* what every initial state has in common: nothing in flight
Quiet ==
    /\ rb = [w \in WT |-> NoRebase]
    /\ stateFile = [w \in WT |-> NoFile]
    /\ stash = <<>>
    /\ pc = "idle"
    /\ cmd = "none"
    /\ cwd = 1
    /\ didStash = FALSE
    /\ behind = 0
    /\ ending = ""
    /\ idx = 1
    /\ class = [w \in WT |-> "none"]
    /\ result = NoResult
    /\ log = <<>>
    /\ pre = NoSnapshot
    /\ invocations = 0
    /\ kills = 0
    /\ killed = NoKill
    /\ baseOut = <<>>
    /\ oursOut = <<>>
    /\ conflicts = <<>>

\* The first working copy is on the configured base branch, on "main" or on
\* a feature branch, the others on feature branches.  A branch may have
\* commits of its own; those of a feature branch may conflict with the
\* remote's.
Units(n) ==
    /\ branch \in [WT -> {BaseBranch, "main"} \cup {FeatureNames[w] : w \in WT}]
    /\ \A w \in WT : \/ branch[w] = FeatureNames[w]
                     \/ w = 1 /\ isBaseBranch(branch[w])
    /\ willConflict \in [WT -> BOOLEAN]
    /\ \A w \in WT : willConflict[w] =>
                        ~isBaseBranch(branch[w]) /\ head[w].ahead = 1
    /\ tree \in [WT -> 0..n]
    /\ \A w \in WT : tree[w] \in {Clean, w}

Init ==
    /\ worktrees = [i \in 1..NumWT |-> i]
    /\ head \in [WT -> [base : {0}, ahead : 0..1]]
    /\ Units(NumWT)
    /\ refusing = FALSE
    /\ originRef = [b \in RemoteBranches |-> 0]
    /\ upstream = [b \in RemoteBranches |-> 0]
    /\ Quiet

\* a repository whose working copies were created at different times
InitBatch ==
    /\ worktrees = [i \in 1..BatchWT |-> i]
    /\ upstream = [b \in RemoteBranches |-> BatchRemote]
    /\ originRef \in [RemoteBranches -> {BatchRemote - 1, BatchRemote}]
    /\ originRef["main"] = BatchRemote
    /\ head \in [WT -> [base : {0, originRef[BaseBranch]}, ahead : 0..1]]
    /\ Units(BatchWT)
    /\ refusing = FALSE
    /\ \A w \in WT : head[w].ahead = IF isBaseBranch(branch[w]) THEN 0 ELSE 1
    /\ \A w \in WT : isBaseBranch(branch[w]) => head[w].base = 0
    /\ Quiet

\* the steps of a running invocation
Step ==
    \/ FeatureBegin
    \/ FeatureSave
    \/ FeatureFetch
    \/ FeatureAheadBehind
    \/ FeaturePreview
    \/ FeatureRebase
    \/ FeatureRestore
    \/ FeatureRemove
    \/ BaseBegin
    \/ BaseFetch
    \/ BaseAheadBehind
    \/ BaseMerge
    \/ BaseRestore
    \/ ContinueBegin
    \/ ContinueRestore
    \/ ContinueRemove
    \/ AbortBegin
    \/ AbortState
    \/ AbortRemove
    \/ AllFetch
    \/ AllUnit
    \/ AllAbort
    \/ AllSummary

\* what the operator and the remote do between two invocations
Environment ==
    \/ \E w \in WT : Resolve(w)
    \/ \E b \in RemoteBranches : RemoteAdvance(b)

Invoke ==
    \/ \E w \in WT, flag \in Flags \ {"all"} : runRebase(w, flag)
    \/ runRebase(1, "all")

Next ==
    \/ invocations < MaxInvocations /\ Invoke
    \/ Step
    \/ Environment

Spec == Init /\ [][Next]_vars

\* the same, with invocations that are killed between two steps
NextKill ==
    \/ invocations < KillInvocations /\ Invoke
    \/ Step
    \/ Environment
    \/ kills < MaxKills /\ Kill

SpecKill == Init /\ [][NextKill]_vars

\* batch runs over a repository of BatchWT working copies
NextBatch ==
    \/ invocations < 1 /\ runRebase(1, "all")
    \/ AllFetch
    \/ AllUnit
    \/ AllAbort
    \/ AllSummary

SpecBatch == InitBatch /\ [][NextBatch]_vars

\* ------------------------------------------- a working copy on a detached head
\* The first working copy has a commit checked out, not a branch: git
\* rev-parse --abbrev-ref HEAD prints "HEAD" there and succeeds.
InitDetached ==
    /\ worktrees = [i \in 1..NumWT |-> i]
    /\ head \in [WT -> [base : {0}, ahead : 0..1]]
    /\ branch = [w \in WT |-> IF w = 1 THEN "HEAD" ELSE FeatureNames[w]]
    /\ refusing = FALSE
    /\ willConflict \in [WT -> BOOLEAN]
    /\ \A w \in WT : willConflict[w] => head[w].ahead = 1
    /\ tree \in [WT -> 0..NumWT]
    /\ \A w \in WT : tree[w] \in {Clean, w}
    /\ originRef = [b \in RemoteBranches |-> 0]
    /\ upstream \in [RemoteBranches -> 0..MaxRemote]
    /\ Quiet

NextDetached ==
    \/ invocations < 1 /\ runRebase(1, "none")
    \/ invocations < 1 /\ runRebaseOutside
    \/ FeatureBegin
    \/ FeatureSave
    \/ FeatureFetch
    \/ FeatureAheadBehind
    \/ FeaturePreview
    \/ FeatureRebase
    \/ FeatureRestore
    \/ FeatureRemove

SpecDetached == InitDetached /\ [][NextDetached]_vars

\* ------------------------------------- a repository whose rebases are refused
\* Feature branches only; a pre-rebase hook makes every git rebase fail
\* before it starts.
InitRefuse ==
    /\ worktrees = [i \in 1..NumWT |-> i]
    /\ head \in [WT -> [base : {0}, ahead : 0..1]]
    /\ branch = [w \in WT |-> FeatureNames[w]]
    /\ willConflict = [w \in WT |-> FALSE]
    /\ refusing = TRUE
    /\ tree \in [WT -> 0..NumWT]
    /\ \A w \in WT : tree[w] \in {Clean, w}
    /\ originRef = [b \in RemoteBranches |-> 0]
    /\ upstream \in [RemoteBranches -> 0..MaxRemote]
    /\ upstream["main"] = 0
    /\ Quiet

NextRefuse ==
    \/ /\ invocations < KillInvocations
       /\ \E w \in WT, flag \in Flags \ {"all"} : runRebase(w, flag)
    \/ FeatureBegin
    \/ FeatureSave
    \/ FeatureFetch
    \/ FeatureAheadBehind
    \/ FeaturePreview
    \/ FeatureRebase
    \/ FeatureRestore
    \/ FeatureRemove
    \/ ContinueBegin
    \/ ContinueRestore
    \/ ContinueRemove
    \/ AbortBegin
    \/ AbortState
    \/ AbortRemove

SpecRefuse == InitRefuse /\ [][NextRefuse]_vars

\* ------------------------------------------- sync sessions run to their end
\* Feature branches only, the remote ahead of every working copy.  A process
\* that was started runs on to its return, and the operator of a paused
\* sync does not leave it paused for ever: they abort it, or resolve the
\* conflicts and continue it.
InitSession ==
    /\ worktrees = [i \in 1..NumWT |-> i]
    /\ head \in [WT -> [base : {0}, ahead : 0..1]]
    /\ branch = [w \in WT |-> FeatureNames[w]]
    /\ willConflict \in [WT -> BOOLEAN]
    /\ \A w \in WT : willConflict[w] => head[w].ahead = 1
    /\ refusing = FALSE
    /\ tree \in [WT -> 0..NumWT]
    /\ \A w \in WT : tree[w] \in {Clean, w}
    /\ originRef = [b \in RemoteBranches |-> 0]
    /\ upstream = [b \in RemoteBranches |-> IF b = BaseBranch THEN MaxRemote ELSE 0]
    /\ Quiet

\* the sync of working copy w is paused: a state record and a stopped rebase
Paused(w) == stateFile[w] # NoFile /\ rb[w].st # "none"

\* the operator ends the paused sync of working copy w
Finish(w) ==
    /\ Paused(w)
    /\ \/ runRebase(w, "abort")
       \/ rb[w].st = "resolved" /\ runRebase(w, "continue")

SessionStep ==
    \/ FeatureBegin
    \/ FeatureSave
    \/ FeatureFetch
    \/ FeatureAheadBehind
    \/ FeaturePreview
    \/ FeatureRebase
    \/ FeatureRestore
    \/ FeatureRemove
    \/ ContinueBegin
    \/ ContinueRestore
    \/ ContinueRemove
    \/ AbortBegin
    \/ AbortState
    \/ AbortRemove

NextSession ==
    \/ invocations < KillInvocations /\ \E w \in WT : runRebase(w, "none")
    \/ \E w \in WT : Finish(w)
    \/ \E w \in WT : Resolve(w)
    \/ SessionStep

SpecSession ==
    /\ InitSession
    /\ [][NextSession]_vars
    /\ WF_vars(SessionStep)
    /\ \A w \in 1..NumWT : WF_vars(Finish(w))

\* ------------------------------------------------- the predictor on its own
\* what `git diff --name-only` can print: every path once, at most MaxLines
\* of them; strings.Split of an empty output is one empty line
DiffOutputs ==
    {<<"">>} \cup
    UNION {{o \in [1..n -> Lines \ {""}] : \A i, j \in 1..n : o[i] = o[j] => i = j}
           : n \in 1..MaxLines}

InitPredict ==
    /\ worktrees = [i \in 1..1 |-> i]
    /\ branch = [w \in WT |-> FeatureNames[w]]
    /\ willConflict = [w \in WT |-> FALSE]
    /\ refusing = FALSE
    /\ tree = [w \in WT |-> Clean]
    /\ head = [w \in WT |-> [base |-> 0, ahead |-> 1]]
    /\ rb = [w \in WT |-> NoRebase]
    /\ stateFile = [w \in WT |-> NoFile]
    /\ stash = <<>>
    /\ originRef = [b \in RemoteBranches |-> 1]
    /\ upstream = [b \in RemoteBranches |-> 1]
    /\ pc = "predict"
    /\ cmd = "none"
    /\ cwd = 1
    /\ didStash = FALSE
    /\ behind = 0
    /\ ending = ""
    /\ idx = 1
    /\ class = [w \in WT |-> "none"]
    /\ result = NoResult
    /\ log = <<>>
    /\ pre = Snapshot
    /\ invocations = 0
    /\ kills = 0
    /\ killed = NoKill
    /\ baseOut \in DiffOutputs
    /\ oursOut \in DiffOutputs
    /\ conflicts = <<>>

\* git.PotentialConflicts on the two outputs
Predict ==
    /\ pc = "predict"
    /\ conflicts' = ConflictLoop(oursOut, toSet(baseOut))
    /\ pc' = "predicted"
    /\ UNCHANGED <<repoVars, procVars, histVars, result, log>>
    /\ UNCHANGED <<worktrees, branch, willConflict, refusing, baseOut, oursOut>>

NextPredict == Predict

SpecPredict == InitPredict /\ [][NextPredict]_vars

\* ------------------------------------------------------------------ claims
\* an invocation has returned (it was not killed)
Ended == pc = "idle" /\ result.status \in {"ok", "error"}

Ops(name) == {i \in 1..Len(log) : log[i].op = name}

OpsIn(name, w) == {i \in 1..Len(log) : log[i].op = name /\ log[i].wt = w}

Count(name) == Cardinality(Ops(name))

\* the entry a stash push made by the running invocation put on the stack
Pushed == [wt |-> cwd, content |-> pre.tree[cwd], base |-> pre.head[cwd]]

\* C1: a feature-branch sync started with a dirty tree and no state record
\* whose fetch fails ends with the uncommitted changes back in the tree, its
\* stash popped exactly once, no state record, no rebase invoked and the
\* fetch error reported as fatal.
C1_FetchFailureRollsBack ==
    ( /\ Ended
      /\ cmd = "feature"
      /\ pre.tree[cwd] # Clean
      /\ pre.stateFile[cwd] = NoFile
      /\ \E i \in Ops("fetch") : log[i].res = "error" )
    => /\ tree[cwd] = pre.tree[cwd]
       /\ stash = pre.stash
       /\ Count("push") = 1
       /\ Count("pop") = 1
       /\ \A i \in Ops("pop") : log[i].res = "ok"
       /\ stateFile[cwd] = NoFile
       /\ Count("rebase") = 0
       /\ head = pre.head
       /\ result.status = "error"
       /\ result.err = "failed to fetch"

C1_Witness ==
    /\ Ended
    /\ cmd = "feature"
    /\ pre.tree[cwd] # Clean
    /\ pre.stateFile[cwd] = NoFile
    /\ \E i \in Ops("fetch") : log[i].res = "error"
    /\ Count("pop") = 1
    /\ tree[cwd] = cwd

C3_ContinueStaysPaused ==
    ( /\ Ended
      /\ cmd = "continue"
      /\ pre.stateFile[cwd] # NoFile
      /\ pre.rb[cwd].st = "conflict" )
    => /\ result.status = "ok"
       /\ result.msg = "Still have conflicts"
       /\ stateFile = pre.stateFile
       /\ stash = pre.stash
       /\ rb = pre.rb
       /\ head = pre.head
       /\ tree = pre.tree
       /\ Count("pop") = 0
       /\ Count("remove") = 0

\* a continue that found the sync of its working copy paused, with a stash
\* recorded, two invocations after that sync started, and left it paused
C3_Witness ==
    /\ Ended
    /\ cmd = "continue"
    /\ invocations = 3
    /\ pre.stateFile = [w \in WT |-> IF w = cwd THEN "stashed" ELSE NoFile]
    /\ pre.rb[cwd].st = "conflict"
    /\ \A w \in WT \ {cwd} : rb[w].st = "none" /\ ~willConflict[w]
    /\ result.msg = "Still have conflicts"

C5_ContinueNeedsState ==
    ( /\ Ended
      /\ cmd = "continue"
      /\ pre.stateFile[cwd] = NoFile )
    => /\ result.status = "error"
       /\ result.err = "no sync in progress"
       /\ log = <<>>
       /\ Snapshot = pre

C5_Witness ==
    /\ Ended
    /\ cmd = "continue"
    /\ pre.stateFile[cwd] = NoFile
    /\ pre.rb[cwd].st = "conflict"
    /\ rb[cwd].st = "conflict"
    /\ result.err = "no sync in progress"

FetchedNotBehind ==
    /\ \E i \in Ops("fetch") : log[i].res = "ok"
    /\ originRef[BaseBranch] <= pre.head[cwd].base

\* C7 as claimed: a feature-branch sync, dirty or clean, whose behind count
\* after the fetch is zero performs no stash operation, no rebase and no
\* second fetch and ends Resolved with no state record, already up to date.
C7_UpToDateNoStash ==
    ( /\ Ended
      /\ cmd = "feature"
      /\ FetchedNotBehind )
    => /\ Count("push") = 0
       /\ Count("pop") = 0
       /\ Count("rebase") = 0
       /\ Count("fetch") = 1
       /\ stateFile[cwd] = NoFile
       /\ result.status = "ok"
       /\ result.msg = "Already up to date"

\* C7 amended: such a sync performs no rebase and no second fetch, and no
\* stash operation other than the push made before the fetch when the tree
\* was dirty and the pop that undoes it; it ends Resolved with no state
\* record and head, tree and stash as they were, already up to date.
C7_UpToDateShortCircuit ==
    ( /\ Ended
      /\ cmd = "feature"
      /\ FetchedNotBehind )
    => /\ Count("push") = IF pre.tree[cwd] # Clean THEN 1 ELSE 0
       /\ Count("pop") = Count("push")
       /\ \A i \in Ops("push") : i < Min(Ops("fetch"))
       /\ \A i \in Ops("pop") : log[i].res = "ok"
       /\ Count("rebase") = 0
       /\ Count("fetch") = 1
       /\ stateFile[cwd] = NoFile
       /\ head = pre.head
       /\ tree = pre.tree
       /\ stash = pre.stash
       /\ result.status = "ok"
       /\ result.msg = "Already up to date"

C7_Witness ==
    /\ Ended
    /\ cmd = "feature"
    /\ FetchedNotBehind
    /\ pre.tree[cwd] # Clean
    /\ Count("push") = 1
    /\ Count("pop") = 1
    /\ tree[cwd] = cwd

\* the condition of a unit when the batch started
PreDirty(w) == pre.tree[w] # Clean \/ pre.rb[w].st # "none"

\* its behind count against the ref the batch's one fetch left
PreBehind(w) ==
    IF originRef[BaseBranch] > pre.head[w].base
    THEN originRef[BaseBranch] - pre.head[w].base ELSE 0

Expected(w) ==
    IF PreDirty(w) THEN "skipped_dirty"
    ELSE IF PreBehind(w) = 0 THEN "up_to_date"
    ELSE IF willConflict[w] THEN "failed_conflict"
    ELSE "rebased"

\* the branch the unit was on when the batch started
PreBranch(w) == IF pre.rb[w].st = "none" THEN branch[w] ELSE "HEAD"

\* units A (clean, 2 behind, will conflict), B (clean, 0 behind), C (dirty)
ScenarioABC ==
    /\ Len(worktrees) = 3
    /\ \A w \in WT : ~isBaseBranch(branch[w])
    /\ pre.tree = <<Clean, Clean, 3>>
    /\ PreBehind(1) = 2 /\ willConflict[1]
    /\ PreBehind(2) = 0

\* C8 as claimed: in a batch run every working copy that is not on the base
\* branch gets exactly one classification, decided by its own condition
\* alone (dirty, behind count, whether its rebase conflicts), whatever
\* happened to the units before it; A, B, C of the scenario come out as
\* failed_conflict, up_to_date, skipped_dirty.
C8_BatchClassifiesOffBase ==
    ( Ended /\ cmd = "all" )
    => /\ \A w \in WT : PreBranch(w) # BaseBranch => class[w] = Expected(w)
       /\ ScenarioABC
             => class = <<"failed_conflict", "up_to_date", "skipped_dirty">>

\* C8 amended: the same of every working copy that is neither on the
\* configured base branch nor on a branch named main or master; a working
\* copy on one of those gets no classification.
C8_BatchClassifies ==
    ( Ended /\ cmd = "all" )
    => /\ \A w \in WT :
             class[w] = IF PreBranch(w) \in {BaseBranch, "main", "master"}
                        THEN "none" ELSE Expected(w)
       /\ ScenarioABC
             => class = <<"failed_conflict", "up_to_date", "skipped_dirty">>

C8_Witness ==
    /\ Ended
    /\ cmd = "all"
    /\ ScenarioABC
    /\ class = <<"failed_conflict", "up_to_date", "skipped_dirty">>
    /\ head[1] = pre.head[1]

\* C9: a unit whose rebase attempt fails in a batch run has that rebase
\* aborted at once: after the batch its head, its tree and its
\* rebase-in-progress condition are what they were before, and it is not
\* left paused.
C9_BatchAbortsFailedUnit ==
    ( Ended /\ cmd = "all" )
    => \A i \in Ops("rebase") :
          log[i].res # "ok"
          => /\ i < Len(log)
             /\ log[i + 1] = Op("abort", log[i].wt, "ok")
             /\ class[log[i].wt] = "failed_conflict"
             /\ head[log[i].wt] = pre.head[log[i].wt]
             /\ tree[log[i].wt] = pre.tree[log[i].wt]
             /\ rb[log[i].wt] = pre.rb[log[i].wt]
             /\ rb[log[i].wt].st = "none"
             /\ stateFile[log[i].wt] = pre.stateFile[log[i].wt]

C9_Witness ==
    /\ Ended
    /\ cmd = "all"
    /\ \E i \in Ops("rebase") :
          /\ log[i].res = "conflict"
          /\ head[log[i].wt] = pre.head[log[i].wt]
          /\ rb[log[i].wt].st = "none"
          /\ \E j \in Ops("rebase") : j > i

C11_BatchLeavesNothing ==
    ( Ended /\ cmd = "all" )
    => \A w \in WT : stateFile[w] = NoFile /\ rb[w].st = "none"

\* C11 amended: a batch run never writes or removes a state record, at any
\* of its steps, and when it completes no working copy has a rebase in
\* progress that was not already in progress when the batch started;
\* started with no state record and no rebase in progress it completes
\* with none.
C11_BatchKeepsRecords ==
    cmd = "all"
    => /\ stateFile = pre.stateFile
       /\ Count("save") = 0
       /\ Count("remove") = 0
       /\ Ended => \A w \in WT : rb[w].st # "none" => rb[w] = pre.rb[w]
       /\ ( /\ Ended
            /\ \A w \in WT : pre.stateFile[w] = NoFile /\ pre.rb[w].st = "none" )
          => \A w \in WT : stateFile[w] = NoFile /\ rb[w].st = "none"

\* a completed batch that rolled one unit's conflicting rebase back while
\* another working copy stays paused with its state record
C11_Witness ==
    /\ Ended
    /\ cmd = "all"
    /\ \E i \in Ops("rebase") : log[i].res = "conflict" /\ rb[log[i].wt].st = "none"
    /\ \E w \in WT : /\ pre.stateFile[w] # NoFile
                     /\ stateFile[w] = pre.stateFile[w]
                     /\ rb[w].st = "conflict"

\* the fetch of a base-branch sync succeeded and left the branch behind its
\* remote ref
BaseFetchedBehind ==
    /\ \E i \in Ops("fetch") : log[i].res = "ok"
    /\ originRef[branch[cwd]] > pre.head[cwd].base

\* C12: a base-branch sync with a clean tree, behind a remote branch it can
\* fast-forward to (no commit of its own), performs exactly one fetch, then
\* exactly one fast-forward merge, no stash operation, no rebase, writes no
\* state record and reports success with the head on the remote ref.
C12_BaseFastForwards ==
    ( /\ Ended
      /\ cmd = "base"
      /\ pre.tree[cwd] = Clean
      /\ pre.head[cwd].ahead = 0
      /\ BaseFetchedBehind )
    => /\ log = <<Op("fetch", cwd, "ok"), Op("ab", cwd, "ok"),
                  Op("merge", cwd, "ok")>>
       /\ Count("push") = 0
       /\ Count("pop") = 0
       /\ Count("rebase") = 0
       /\ Count("save") = 0
       /\ stateFile = pre.stateFile
       /\ stash = pre.stash
       /\ tree = pre.tree
       /\ rb = pre.rb
       /\ head[cwd] = [base |-> originRef[branch[cwd]], ahead |-> 0]
       /\ result.status = "ok"
       /\ result.msg = "synced!"

\* a working copy on main, with another branch configured as base,
\* fast-forwarded to the remote's main
C12_Witness ==
    /\ Ended
    /\ cmd = "base"
    /\ branch[cwd] = "main"
    /\ pre.tree[cwd] = Clean
    /\ pre.head[cwd].ahead = 0
    /\ BaseFetchedBehind
    /\ Count("merge") = 1
    /\ head[cwd].base > pre.head[cwd].base

\* C13: on the base-branch path the engine's rebase is never invoked, at any
\* step; when the fast-forward-only merge fails on diverged history the
\* invocation ends with the fatal error "cannot fast-forward", the head is
\* what it was and nothing was attempted after the one merge but the
\* restoring of the stash.
C13_BaseNeverRebases ==
    cmd = "base"
    => /\ Count("rebase") = 0
       /\ Count("continue") = 0
       /\ rb = pre.rb
       /\ ( Ended /\ \E i \in Ops("merge") : log[i].res # "ok" )
          => /\ result.status = "error"
             /\ result.err = "cannot fast-forward"
             /\ head = pre.head
             /\ Count("merge") = 1
             /\ \A i \in 1..Len(log) :
                    i > Min(Ops("merge")) => log[i].op = "pop"

\* a base branch with a commit of its own behind its remote: the merge is
\* refused and the stash the sync pushed is back in the tree
C13_Witness ==
    /\ Ended
    /\ cmd = "base"
    /\ pre.head[cwd].ahead > 0
    /\ originRef[branch[cwd]] > pre.head[cwd].base
    /\ \E i \in Ops("merge") : log[i].res = "error"
    /\ result.err = "cannot fast-forward"
    /\ Count("pop") = 1
    /\ tree[cwd] = cwd

\* the answer the operator gave to the confirmation of a base-branch sync
Answered(input) == log # <<>> /\ log[1] = Op("confirm", cwd, input)

\* C14 as claimed: on the base-branch path a stash is pushed only after the
\* confirmation was asked, the default answer (an empty line) is not to
\* stash, and without consent no stash, fetch or merge is performed.
C14_BaseStashDefaultNo ==
    cmd = "base"
    => /\ \A i \in Ops("push") : i = 2 /\ log[1].op = "confirm"
       /\ Answered("") \/ Answered("n")
          => Count("push") = 0 /\ Count("fetch") = 0 /\ Count("merge") = 0

\* C14 amended: a stash is pushed only right after the confirmation was
\* asked, with a dirty tree; the default answer (an empty line) is to stash,
\* as an explicit yes is; on any other answer the invocation ends
\* "Cancelled" with exit status zero and has performed no stash, fetch or
\* merge and changed nothing; with a clean tree nothing is asked or stashed.
C14_BaseStashDefaultYes ==
    cmd = "base"
    => /\ \A i \in Ops("push") : i = 2 /\ log[1].op = "confirm"
       /\ pc # "b_begin"
          => Ops("confirm") = IF pre.tree[cwd] # Clean THEN {1} ELSE {}
       /\ pre.tree[cwd] = Clean => Count("push") = 0
       /\ Answered("") \/ Answered("y")
          => Count("push") = 1 /\ log[2].op = "push"
       /\ Answered("n")
          => /\ Len(log) = 1
             /\ Ended
             /\ result.status = "ok"
             /\ result.msg = "Cancelled"
             /\ Snapshot = pre

\* the operator just pressed Enter and the dirty tree was stashed
C14_Witness ==
    /\ Ended
    /\ cmd = "base"
    /\ pre.tree[cwd] # Clean
    /\ Answered("")
    /\ log[2] = Op("push", cwd, "ok")
    /\ Count("fetch") = 1
    /\ Count("pop") = 1

RECURSIVE Range(_)
Range(seq) == IF seq = <<>> THEN {} ELSE {Head(seq)} \cup Range(Tail(seq))

\* the paths a diff output names: its lines without the blanks around them,
\* the empty ones left out
Paths(out) == {TrimSpace(out[i]) : i \in 1..Len(out)} \ {""}

\* C15: the predictor returns exactly the paths that both diffs name: every
\* common path, no path of one side only, no blank entry, each path as often
\* as the local diff names it; for remote-changed x, y and local-changed
\* y, z exactly y; and it leaves the repository as it was.
C15_PredictorIsIntersection ==
    pc = "predicted"
    => /\ Range(conflicts) = Paths(baseOut) \cap Paths(oursOut)
       /\ "" \notin Range(conflicts)
       /\ \A p \in Paths(oursOut) :
             Cardinality({i \in 1..Len(conflicts) : conflicts[i] = p})
                <= Cardinality({i \in 1..Len(oursOut) : TrimSpace(oursOut[i]) = p})
       /\ baseOut = <<"x", "y">> /\ oursOut = <<"y", "z">>
          => conflicts = <<"y">>
       /\ Snapshot = pre

C15_Witness ==
    /\ pc = "predicted"
    /\ baseOut = <<"x", "y">>
    /\ oursOut = <<"y", "z">>
    /\ conflicts = <<"y">>

\* a continue or abort invocation has ended that was run in the working
\* copy of a killed feature-branch sync, right after it was killed
Recovered ==
    /\ Ended
    /\ cmd \in {"continue", "abort"}
    /\ kills = 1
    /\ invocations = 2
    /\ killed.cmd = "feature"
    /\ killed.wt = cwd

\* C16: after a feature-branch sync was killed between two of its steps, a
\* continue invocation (the conflicts of a stopped rebase resolved), and
\* equally an abort invocation, ends with no state record, no rebase in
\* progress, the uncommitted changes the sync found back in the tree and
\* the stash stack as the sync found it.
C16_KilledSyncRecovers ==
    ( /\ Recovered
      /\ cmd = "continue" => pre.rb[cwd].st # "conflict" )
    => /\ stateFile[cwd] = NoFile
       /\ rb[cwd].st = "none"
       /\ tree[cwd] = killed.tree
       /\ stash = killed.stash

\* C17: an invocation pushes at most one stash and pops at most once, and a
\* pop that succeeds removes the entry its own attempt pushed: in a feature-
\* or base-branch sync the entry this invocation pushed, in a continue or
\* an abort the entry the paused sync of the same working copy pushed; no
\* other entry of the stack is removed.
C17_PopsOwnStash ==
    /\ Count("push") <= 1
    /\ Count("pop") <= 1
    /\ ( Ended /\ \E i \in Ops("pop") : log[i].res = "ok" )
       => IF cmd \in {"feature", "base"}
          THEN /\ Count("push") = 1
               /\ \A i \in Ops("pop") : i > Min(Ops("push"))
               /\ stash = pre.stash
          ELSE /\ pre.stash # <<>>
               /\ pre.stash[1].wt = cwd
               /\ stash = Tail(pre.stash)

\* the working copies that have a state record
Records == {w \in WT : StateFileExists(w)}

\* C18 as claimed: at most one state record exists in the whole repository,
\* counted across its working copies.
C18_OneRecordPerRepository == Cardinality(Records) <= 1

\* C18 amended: the state record is kept per working copy, so a repository
\* can hold one for each of its working copies at once.  An invocation
\* creates, changes or removes only the record of the working copy it runs
\* in; a sync started where a rebase is in progress is refused and leaves
\* every record as it was.
C18_OneRecordPerWorkingCopy ==
    /\ cmd # "none"
       => \A w \in WT \ {cwd} : stateFile[w] = pre.stateFile[w]
    /\ cmd = "feature" /\ pre.rb[cwd].st # "none"
       => /\ stateFile = pre.stateFile
          /\ Ended => /\ result.status = "error"
                       /\ result.err = "rebase already in progress"

\* two working copies paused, each with its own record, and a third sync
\* refused in one of them
C18_Witness ==
    /\ Ended
    /\ cmd = "feature"
    /\ Cardinality(Records) = 2
    /\ \A w \in Records : rb[w].st = "conflict"
    /\ result.err = "rebase already in progress"

\* the operations of the running invocation that failed, the engine's rebase
\* and rebase-continue (whose failure is the conflict pause) left out
Failures ==
    {i \in 1..Len(log) : /\ log[i].op \in {"push", "pop", "save", "fetch", "merge"}
                         /\ log[i].res # "ok"}

\* C19: a single-unit invocation (sync, continue or abort) in which a stash
\* push, a stash pop, a state save, a fetch or a fast-forward merge failed
\* ends with a reported error and a non-zero exit status; only the conflict
\* pause is a failure that ends with exit status zero.
C19_FailuresAreFatal ==
    ( Ended /\ cmd \in {"feature", "base", "continue", "abort"} )
    => ( Failures # {} => result.status = "error" /\ result.err # "" )

\* the fetches of the running invocation that failed
FailedFetches == {i \in Ops("fetch") : log[i].res # "ok"}

\* C20: in a feature-branch sync, a base-branch sync and a batch run alike,
\* no rebase and no merge is attempted after a fetch that failed, and the
\* invocation ends with a fatal error.
C20_FetchFailureIsFatal ==
    ( cmd \in {"feature", "base", "all"} /\ FailedFetches # {} )
    => /\ \A i \in Ops("rebase") \cup Ops("merge") : i < Min(FailedFetches)
       /\ Ended => result.status = "error" /\ result.err # ""

\* C21 as claimed: without flags the base-branch path is taken exactly when
\* the current branch is the configured base branch, the feature-branch
\* path for every other branch; a batch run skips exactly the working copies
\* on the configured base branch.
C21_DispatchByConfiguredBase ==
    /\ cmd \in {"feature", "base"}
       => ( cmd = "base" <=> PreBranch(cwd) = BaseBranch )
    /\ Ended /\ cmd = "all"
       => \A w \in WT : class[w] = "none" <=> PreBranch(w) = BaseBranch

\* C21 amended: the base-branch path is taken exactly when the current
\* branch is the configured base branch or is named main or master, the
\* feature-branch path for every other branch; the base path never saves
\* state or rebases, the feature path never merges; a batch run skips
\* exactly the working copies on one of those three branches.
C21_DispatchByBaseLikeBranch ==
    /\ cmd \in {"feature", "base"}
       => /\ cmd = "base" <=> PreBranch(cwd) \in {BaseBranch, "main", "master"}
          /\ PreBranch(cwd) \in {BaseBranch, "main", "master"}
             => Count("save") = 0 /\ Count("rebase") = 0
          /\ PreBranch(cwd) \notin {BaseBranch, "main", "master"}
             => Count("merge") = 0 /\ Count("confirm") <= Count("preview")
    /\ Ended /\ cmd = "all"
       => \A w \in WT : class[w] = "none"
                           <=> PreBranch(w) \in {BaseBranch, "main", "master"}

\* a batch run that skipped a working copy on main, another branch being
\* configured as base, and rebased a feature branch
C21_Witness ==
    /\ Ended
    /\ cmd = "all"
    /\ branch[1] = "main"
    /\ BaseBranch # "main"
    /\ class[1] = "none"
    /\ \E w \in WT : class[w] = "rebased"

\* C22: a sync invoked outside a repository, or in a working copy whose head
\* is detached, completes no stash push, state save, fetch or rebase, leaves
\* state record and working tree as they were and ends with a fatal error.
C22_EnvironmentErrorsAreFatal ==
    ( \/ cmd = "outside"
      \/ cmd \in {"feature", "base"} /\ branch[cwd] = "HEAD" )
    => /\ \A i \in 1..Len(log) : log[i].res # "ok"
       /\ Snapshot = pre
       /\ Ended => result.status = "error" /\ result.err # ""

\* every operation named a of the running invocation precedes every one
\* named b
Before(a, b) == \A i \in Ops(a), j \in Ops(b) : i < j

C24_NoPartialState ==
    ( /\ Ended
      /\ cmd = "feature"
      /\ pre.stateFile[cwd] = NoFile
      /\ pre.rb[cwd].st = "none" )
    => /\ ( \A i \in Ops("rebase") : log[i].res # "conflict" )
          => stateFile[cwd] = NoFile /\ stash = pre.stash
       /\ stateFile[cwd] # NoFile => rb[cwd].st # "none"

\* the answer the operator gave to the prompt of the conflict preview
PreviewAnswered(input) == \E i \in Ops("confirm") : log[i].res = input

\* the paths both sides changed, from the state the sync started in and the
\* ref its fetch left
PreOverlap ==
    IF pre.head[cwd].ahead > 0 /\ originRef[BaseBranch] > pre.head[cwd].base
    THEN Range(RemoteOut) \cap Range(OursOut) ELSE {}

\* C25: in a feature-branch sync the prompt is shown only right after a
\* preview that computed a non-empty overlap; with an empty overlap, or one
\* that could not be computed, the rebase follows the preview with no
\* prompt; after a prompt the rebase follows unless the operator declines,
\* and then the invocation ends "Cancelled" with success, no rebase, no
\* state record and stash, tree and head as they were.  A batch run never
\* previews or prompts.
C25_PreviewNeverBlocks ==
    /\ cmd = "feature"
       => /\ \A i \in Ops("confirm") :
                /\ i > 1
                /\ log[i - 1] = Op("preview", cwd, "ok")
                /\ PreOverlap # {}
          /\ \A i \in Ops("preview") :
                log[i].res = "ok" /\ PreOverlap # {} => Count("confirm") = 1
          /\ ( Ended /\ Count("preview") = 1 /\ ~PreviewAnswered("n") )
             => Count("rebase") = 1
          /\ ( Ended /\ PreviewAnswered("n") )
             => /\ Count("rebase") = 0
                /\ result.status = "ok"
                /\ result.msg = "Cancelled"
                /\ stateFile[cwd] = NoFile
                /\ stash = pre.stash
                /\ tree = pre.tree
                /\ head = pre.head
    /\ cmd = "all" => Count("preview") = 0 /\ Count("confirm") = 0

\* the operator declined and the stashed changes are back in the tree
C25_Witness ==
    /\ Ended
    /\ cmd = "feature"
    /\ PreviewAnswered("n")
    /\ pre.tree[cwd] # Clean
    /\ tree[cwd] = cwd
    /\ result.msg = "Cancelled"

\* the sync of working copy w is over and the changes it shelved are back
Settled(w) ==
    /\ stateFile[w] = NoFile
    /\ rb[w].st = "none"
    /\ tree[w] = w

\* C26: a sync that is paused with a recorded stash eventually reaches a
\* state with no state record, no rebase in progress and the stashed
\* changes back in the working copy, once the operator aborts it or
\* resolves the conflicts and continues it.
C26_SessionTerminates ==
    \A w \in 1..NumWT :
        ( pc = "idle" /\ Paused(w) /\ stateFile[w] = "stashed" ) ~> Settled(w)

\* the working copies the batch has examined so far
Examined == {w \in WT : w < idx}

\* C27: a batch run attempts exactly one fetch, of the configured base
\* branch, and it is the first thing the run does; every other ref is left
\* alone.  The units are examined in list order, and a unit that is clean
\* and off the base branch is rebased exactly when it is behind the ref as
\* that fetch left it, and is counted up to date otherwise.
C27_BatchFetchesOnce ==
    ( cmd = "all" /\ pc # "all_fetch" )
    => /\ Count("fetch") = 1
       /\ log[1].op = "fetch"
       /\ originRef[BaseBranch] = IF log[1].res = "ok" THEN upstream[BaseBranch]
                                  ELSE pre.originRef[BaseBranch]
       /\ \A b \in RemoteBranches \ {BaseBranch} : originRef[b] = pre.originRef[b]
       /\ \A i, j \in Ops("rebase") : i < j => log[i].wt < log[j].wt
       /\ \A w \in WT \ Examined :
             /\ class[w] = "none"
             /\ OpsIn("rebase", w) # {} => w = idx /\ pc = "all_abort"
       /\ \A w \in Examined :
             ( ~isBaseBranch(PreBranch(w)) /\ ~PreDirty(w) )
             => /\ class[w] = "up_to_date" <=> PreBehind(w) = 0
                /\ OpsIn("rebase", w) # {} <=> PreBehind(w) > 0

\* the one fetch moved the ref, and two units were rebased onto it
C27_Witness ==
    /\ Ended
    /\ cmd = "all"
    /\ log[1] = Op("fetch", cwd, "ok")
    /\ originRef[BaseBranch] > pre.originRef[BaseBranch]
    /\ \E v, w \in WT : /\ v < w
                        /\ OpsIn("rebase", v) # {}
                        /\ OpsIn("rebase", w) # {}
                        /\ pre.head[v].base # pre.head[w].base

\* working copies v and w were both paused with a recorded stash when the
\* invocation started, v's sync having paused first
BothPaused(v, w) ==
    /\ v # w
    /\ \A u \in {v, w} : pre.stateFile[u] = "stashed" /\ pre.rb[u].st # "none"
    /\ Len(pre.stash) = 2
    /\ pre.stash[1].wt = w
    /\ pre.stash[2].wt = v

\* C28: with two working copies paused with a recorded stash each, a
\* continue or abort that ends the sync of one of them puts that working
\* copy's own changes back and leaves the other's entry on the stack.
C28_PausedStashesStayApart ==
    ( /\ Ended
      /\ cmd \in {"continue", "abort"}
      /\ result.msg \in {"Synced with base branch", "Rebase aborted"}
      /\ \E v, w \in WT : BothPaused(v, w) )
    => /\ tree[cwd] = cwd
       /\ Len(stash) = 1
       /\ stash[1].wt # cwd

\* C29: between two invocations every entry that a feature-branch sync
\* left on the stash stack has, in its working copy, a state record that
\* says "stashed": no invocation overwrites or deletes such a record
\* before the entry is popped.
C29_StashKeepsItsRecord ==
    pc = "idle"
    => \A i \in 1..Len(stash) :
          ~isBaseBranch(branch[stash[i].wt])
          => stateFile[stash[i].wt] = "stashed"

\* C30: a fresh feature-branch sync started in a working copy whose rebase
\* is in progress, and not killed before its first step, returns the error "rebase already in progress" at its
\* first step, with no operation attempted and the trees, heads, rebases,
\* state records, stash stack and fetched refs exactly as they were.
C30_RefusesDuringRebase ==
    ( /\ cmd = "feature" /\ pre.rb[cwd].st # "none"
      /\ pc # "f_begin" /\ result.status # "killed" )
    => /\ Ended
       /\ result.status = "error"
       /\ result.err = "rebase already in progress"
       /\ log = <<>>
       /\ tree = pre.tree
       /\ head = pre.head
       /\ rb = pre.rb
       /\ stateFile = pre.stateFile
       /\ stash = pre.stash
       /\ originRef = pre.originRef

\* a sync refused in a working copy whose sync is paused with a recorded
\* stash
C30_Witness ==
    /\ Ended
    /\ cmd = "feature"
    /\ pre.rb[cwd].st # "none"
    /\ result.err = "rebase already in progress"
    /\ stateFile[cwd] = "stashed"
    /\ \E i \in 1..Len(stash) : stash[i].wt = cwd

============================================================================
